---- MODULE Spec2Model ----
(***************************************************************************)
(* A model of googlesheety.py: one batch run refreshes the Zoho token,     *)
(* lists the files of a fixed folder, sets "everyone" permissions on each  *)
(* file, resolves a permalink (directly or through the Gemini fallback)    *)
(* and appends the new (file_id, permalink) rows to a Google sheet.        *)
(*                                                                         *)
(* Python values: a str is a sequence of one-character strings, None is    *)
(* the one-element sequence PyNone, whose element is no character.  File   *)
(* identifiers are opaque and are TLA+ strings; "" is a missing one.       *)
(* Remote services answer within their documented response shapes; which   *)
(* answer they give (a result or a transport/HTTP error) is chosen         *)
(* nondeterministically at the call.                                       *)
(***************************************************************************)
EXTENDS Integers, Sequences, FiniteSets, TLC

VARIABLES
    pc,              \* position of main(): INIT .. DONE
    config,          \* the five environment settings of this run
    credFile,        \* etc/secrets/token.json as get_google_sheets_service found it ("unread" before)
    tokenResp,       \* what the token endpoint answered ("not_requested" if never asked)
    zoho_auth_token, \* the global zoho_auth_token / zoho_headers['Authorization']
    folder,          \* the remote folder as the listing endpoint pages through it
    file_ids,        \* main's file_ids
    pageLog,         \* the page requests fetch_file_ids issued: <<offset, items>>
    idx,             \* position of main's for loop in file_ids
    results,         \* main's results
    permLog,         \* every Permission Result returned so far in this run
    permHttp,        \* per permission request: "ok" or "error"
    sheet,           \* rows 2.. of Sheet1: <<column A, column B>>
    calls,           \* network requests issued in this run, per endpoint
    lastSync,        \* the latest append_to_google_sheet call
    prevSync,        \* the call before it
    syncCalls        \* number of append_to_google_sheet calls so far

vars == <<pc, config, credFile, tokenResp, zoho_auth_token, folder, file_ids,
          pageLog, idx, results, permLog, permHttp, sheet, calls, lastSync,
          prevSync, syncCalls>>

---------------------------------------------------------------------------
(* Bounds *)

MaxListing == 2
MaxFiles == 120
MaxFailAt == 3
MaxResults == 2
MaxSyncCalls == 2

---------------------------------------------------------------------------
(* Python values *)

PyNone == <<"<None>">>

Truthy(v) == v # PyNone /\ v # <<>>

Whitespace == {" ", "\n", "\t"}

RECURSIVE LStrip(_)
LStrip(s) == IF s # <<>> /\ Head(s) \in Whitespace THEN LStrip(Tail(s)) ELSE s

RECURSIVE RStrip(_)
RStrip(s) ==
    IF s # <<>> /\ s[Len(s)] \in Whitespace THEN RStrip(SubSeq(s, 1, Len(s) - 1)) ELSE s

Strip(s) == RStrip(LStrip(s))

StartsWith(s, p) == Len(s) >= Len(p) /\ SubSeq(s, 1, Len(p)) = p

\* re.match(r'^https?://', s)
MatchesUrlPrefix(s) ==
    \/ StartsWith(s, <<"h", "t", "t", "p", ":", "/", "/">>)
    \/ StartsWith(s, <<"h", "t", "t", "p", "s", ":", "/", "/">>)

Min(a, b) == IF a < b THEN a ELSE b

---------------------------------------------------------------------------
(* Module-level configuration, lines 25-50 *)

limit == 50

\* os.getenv gives None for a variable that is unset and "" for one that is set
\* and empty.
SettingNames ==
    {"ZOHO_REFRESH_TOKEN", "ZOHO_CLIENT_ID", "ZOHO_CLIENT_SECRET",
     "GEMINI_API_KEY", "GOOGLE_SPREADSHEET_ID"}

AllSet == [n \in SettingNames |-> <<"v">>]

\* The environments of a run: every setting present, or one of them unset or empty.
Configs ==
    {AllSet} \cup
    {[AllSet EXCEPT ![n] = v] : n \in SettingNames, v \in {PyNone, <<>>}}

refresh_params(cfg) ==
    {cfg["ZOHO_REFRESH_TOKEN"], cfg["ZOHO_CLIENT_ID"], cfg["ZOHO_CLIENT_SECRET"]}

gemini_api_key(cfg) == cfg["GEMINI_API_KEY"]

SPREADSHEET_ID(cfg) == cfg["GOOGLE_SPREADSHEET_ID"]

CredFileStates == {"absent", "invalid", "valid"}

---------------------------------------------------------------------------
(* refresh_access_token, lines 65-90 *)

TokenResponses == {"transport_error", "no_access_token", "access_token"}

\* The token endpoint's answers to the request built from cfg (line 32): the
\* refresh grant is refused, with an error status or an error body, when the
\* refresh token, the client id or the client secret it carries is empty.
TokenResponsesTo(cfg) ==
    IF \A v \in refresh_params(cfg) : Truthy(v)
    THEN TokenResponses
    ELSE {"transport_error", "no_access_token"}

\* The three early returns of lines 67-75.
SettingsPresent(cfg) ==
    /\ PyNone \notin refresh_params(cfg)
    /\ Truthy(gemini_api_key(cfg))
    /\ Truthy(SPREADSHEET_ID(cfg))

refresh_access_token_inverted(cfg, resp) ==
    IF ~SettingsPresent(cfg)
    THEN [ok |-> FALSE, requested |-> FALSE, token |-> PyNone]
    ELSE IF resp = "access_token"
    THEN [ok |-> FALSE, requested |-> TRUE, token |-> <<"t">>]
    ELSE [ok |-> FALSE, requested |-> TRUE, token |-> PyNone]

refresh_access_token_lenient(cfg, resp) ==
    IF ~SettingsPresent(cfg)
    THEN [ok |-> FALSE, requested |-> FALSE, token |-> PyNone]
    ELSE IF resp = "transport_error"
    THEN [ok |-> FALSE, requested |-> TRUE, token |-> PyNone]
    ELSE [ok |-> TRUE, requested |-> TRUE, token |-> <<"t">>]

refresh_access_token(cfg, resp) ==
    IF ~SettingsPresent(cfg)
    THEN [ok |-> FALSE, requested |-> FALSE, token |-> PyNone]
    ELSE IF resp = "access_token"
    THEN [ok |-> TRUE, requested |-> TRUE, token |-> <<"t">>]
    ELSE [ok |-> FALSE, requested |-> TRUE, token |-> PyNone]

---------------------------------------------------------------------------
(* fetch_file_ids, lines 92-116 *)

NoId == ""

HasId(file) == file # NoId

\* The listing endpoint: the window page[offset], page[limit] of the folder.
Page(fld, offset, lim) == SubSeq(fld, offset + 1, Min(offset + lim, Len(fld)))

\* for file in files: if file_id: file_ids.append(file_id)
CollectIds(files) == SelectSeq(files, HasId)

\* One pass of the while loop per level; failAt is the number of the request
\* that raises a RequestException (0: none does).
RECURSIVE FetchLoop(_, _, _, _, _)
FetchLoop(fld, offset, ids, log, failAt) ==
    IF Len(log) + 1 = failAt
    THEN [file_ids |-> ids, pages |-> Append(log, <<offset, -1>>)]
    ELSE LET files == Page(fld, offset, limit)
             log1 == Append(log, <<offset, Len(files)>>)
         IN  IF files = <<>>
             THEN [file_ids |-> ids, pages |-> log1]
             ELSE IF Len(files) < limit
             THEN [file_ids |-> ids \o CollectIds(files), pages |-> log1]
             ELSE FetchLoop(fld, offset + limit, ids \o CollectIds(files), log1, failAt)

fetch_file_ids_first_page(fld, failAt) ==
    IF failAt = 1
    THEN [file_ids |-> <<>>, pages |-> <<<<0, -1>>>>]
    ELSE LET files == Page(fld, 0, limit)
         IN  [file_ids |-> CollectIds(files), pages |-> <<<<0, Len(files)>>>>]

fetch_file_ids(fld, failAt) == FetchLoop(fld, 0, <<>>, <<>>, failAt)

---------------------------------------------------------------------------
(* extract_permalink_with_gemini, lines 150-181 *)

Url == <<"h", "t", "t", "p", "s", ":", "/", "/", "z">>

TextNone == <<"N", "o", "n", "e">>

GeminiTexts ==
    {TextNone, <<>>, <<" ", "\n">>, <<"n", "o", "t", "-", "a", "-", "u", "r", "l">>,
     Url, <<" ">> \o Url \o <<"\n">>, <<"*">> \o Url \o <<"*">>}

\* hasText is FALSE when the answer carries no candidate text: .get('text', 'None').
GeminiResponses ==
    {[status |-> "error", hasText |-> FALSE, text |-> <<>>],
     [status |-> "ok", hasText |-> FALSE, text |-> <<>>]} \cup
    {[status |-> "ok", hasText |-> TRUE, text |-> t] : t \in GeminiTexts}

extract_permalink_with_gemini(gresp) ==
    IF gresp.status = "error"
    THEN PyNone
    ELSE LET extracted_text == Strip(IF gresp.hasText THEN gresp.text ELSE TextNone)
         IN  IF extracted_text = TextNone \/ extracted_text = <<>>
             THEN PyNone
             ELSE IF ~MatchesUrlPrefix(extracted_text)
             THEN PyNone
             ELSE extracted_text

---------------------------------------------------------------------------
(* set_permissions_and_get_permalink, lines 118-148 *)

\* The permissions endpoint: an error, or a body whose data.attributes.permalink
\* is absent (None), empty or a URL.
PermResponses ==
    {[status |-> "error", permalink |-> PyNone]} \cup
    {[status |-> "ok", permalink |-> p] : p \in {PyNone, <<>>, Url}}

set_permissions_and_get_permalink(file_id, resp, gresp) ==
    IF resp.status = "error"
    THEN [result |-> [file_id |-> file_id, permalink |-> PyNone, success |-> FALSE],
          gemini |-> 0]
    ELSE IF Truthy(resp.permalink)
    THEN [result |-> [file_id |-> file_id, permalink |-> resp.permalink, success |-> TRUE],
          gemini |-> 0]
    ELSE [result |-> [file_id |-> file_id,
                      permalink |-> extract_permalink_with_gemini(gresp),
                      success |-> TRUE],
          gemini |-> 1]

---------------------------------------------------------------------------
(* get_google_sheets_service, lines 52-63, and append_to_google_sheet, 183-221 *)

Blank == ""

\* sheet.values().get(range="Sheet1!A2:A"): one list per row, empty for a blank
\* cell.  File identifiers are plain text, which the sheet returns as written.
ColumnA(sh) == [i \in 1..Len(sh) |-> IF sh[i][1] = Blank THEN <<>> ELSE <<sh[i][1]>>]

\* set(value[0] for value in result.get('values', []) if value)
existing_ids(values) == {values[i][1] : i \in {j \in 1..Len(values) : values[j] # <<>>}}

values_to_append_unfiltered(res, existing) == res

RECURSIVE values_to_append_prepending(_, _)
values_to_append_prepending(res, existing) ==
    IF res = <<>>
    THEN <<>>
    ELSE IF Head(res)[1] \notin existing
    THEN values_to_append_prepending(Tail(res), existing) \o <<Head(res)>>
    ELSE values_to_append_prepending(Tail(res), existing)

\* lines 195-201: the loop over results
RECURSIVE values_to_append(_, _)
values_to_append(res, existing) ==
    IF res = <<>>
    THEN <<>>
    ELSE IF Head(res)[1] \notin existing
    THEN <<Head(res)>> \o values_to_append(Tail(res), existing)
    ELSE values_to_append(Tail(res), existing)

\* "service" when the token file exists and holds valid credentials, else the ValueError
get_google_sheets_service(cred) == IF cred = "valid" THEN "service" ELSE "raise"

\* The call's effect on the sheet and the requests it issued.  getOK and appendOK
\* say whether the values().get and values().append requests succeed (an HttpError
\* otherwise); every exception ends in one of the two except clauses.
append_to_google_sheet(res, sh, cred, getOK, appendOK) ==
    IF get_google_sheets_service(cred) = "raise"
    THEN [sheet |-> sh, read |-> FALSE, existing |-> {}, toAppend |-> <<>>,
          gets |-> 0, appends |-> 0, outcome |-> "credentials_error"]
    ELSE IF ~getOK
    THEN [sheet |-> sh, read |-> FALSE, existing |-> {}, toAppend |-> <<>>,
          gets |-> 1, appends |-> 0, outcome |-> "http_error"]
    ELSE LET existing == existing_ids(ColumnA(sh))
             values == values_to_append(res, existing)
         IN  IF values = <<>>
             THEN [sheet |-> sh, read |-> TRUE, existing |-> existing, toAppend |-> values,
                   gets |-> 1, appends |-> 0, outcome |-> "nothing_new"]
             ELSE IF ~appendOK
             THEN [sheet |-> sh, read |-> TRUE, existing |-> existing, toAppend |-> values,
                   gets |-> 1, appends |-> 1, outcome |-> "http_error"]
             ELSE [sheet |-> sh \o values, read |-> TRUE, existing |-> existing,
                   toAppend |-> values, gets |-> 1, appends |-> 1,
                   outcome |-> "appended"]

NoSync ==
    [called |-> FALSE, arg |-> <<>>, before |-> <<>>, after |-> <<>>, read |-> FALSE,
     existing |-> {}, toAppend |-> <<>>, gets |-> 0, appends |-> 0, outcome |-> "none"]

SyncRecord(res, sh, r) ==
    [called |-> TRUE, arg |-> res, before |-> sh, after |-> r.sheet, read |-> r.read,
     existing |-> r.existing, toAppend |-> r.toAppend, gets |-> r.gets,
     appends |-> r.appends, outcome |-> r.outcome]

---------------------------------------------------------------------------
(* main, lines 223-245 *)

Ids == {"A", "B"}

\* Sheets of at most n rows over the identifiers ids (or a blank cell) and the
\* links, no identifier twice.
DupFreeSheets(ids, links, n) ==
    {sh \in UNION {[1..k -> (ids \cup {Blank}) \X links] : k \in 0..n} :
        \A i, j \in 1..Len(sh) : (i # j /\ sh[i][1] = sh[j][1]) => sh[i][1] = Blank}

MaxInitRows == 0

InitSheets == DupFreeSheets(Ids, {Url}, MaxInitRows)

\* What the listing endpoint may return: any files, an identifier possibly twice
\* (overlapping pages).
Folders == UNION {[1..k -> Ids] : k \in 0..MaxListing}

NoCalls == [token |-> 0, list |-> 0, perm |-> 0, gemini |-> 0, gets |-> 0, appends |-> 0]

\* line 238: if result["success"] and result["permalink"]
KeepsSuccessOnly(result) == result.success

Keeps(result) == result.success /\ Truthy(result.permalink)

Init ==
    /\ pc = "INIT"
    /\ config \in Configs
    /\ credFile = "unread"
    /\ sheet \in InitSheets
    /\ tokenResp = "not_requested"
    /\ zoho_auth_token = PyNone
    /\ folder = <<>>
    /\ file_ids = <<>>
    /\ pageLog = <<>>
    /\ idx = 1
    /\ results = <<>>
    /\ permLog = <<>>
    /\ permHttp = <<>>
    /\ calls = NoCalls
    /\ lastSync = NoSync
    /\ prevSync = NoSync
    /\ syncCalls = 0

\* lines 226-228
RefreshToken ==
    /\ pc = "INIT"
    /\ \E resp \in TokenResponsesTo(config) :
          LET r == refresh_access_token(config, resp)
          IN  /\ tokenResp' = IF r.requested THEN resp ELSE "not_requested"
              /\ calls' = [calls EXCEPT !.token = IF r.requested THEN 1 ELSE 0]
              /\ zoho_auth_token' = r.token
              /\ pc' = IF r.ok THEN "TOKEN_REFRESHED" ELSE "DONE"
    /\ UNCHANGED <<config, credFile, folder, file_ids, pageLog, idx, results,
                   permLog, permHttp, sheet, lastSync, prevSync, syncCalls>>

\* lines 230-234
FetchFiles ==
    /\ pc = "TOKEN_REFRESHED"
    /\ \E fld \in Folders, failAt \in 0..1 :
          LET r == fetch_file_ids(fld, failAt)
          IN  /\ folder' = fld
              /\ file_ids' = r.file_ids
              /\ pageLog' = r.pages
              /\ calls' = [calls EXCEPT !.list = Len(r.pages)]
    /\ idx' = 1
    /\ results' = <<>>
    /\ pc' = "FILES_LISTED"
    /\ UNCHANGED <<config, credFile, tokenResp, zoho_auth_token, permLog,
                   permHttp, sheet, lastSync, prevSync, syncCalls>>

ProcessFileAbortsOnError ==
    /\ pc = "FILES_LISTED"
    /\ idx <= Len(file_ids)
    /\ \E resp \in PermResponses, gresp \in GeminiResponses :
          LET r == set_permissions_and_get_permalink(file_ids[idx], resp, gresp)
              result == r.result
          IN  /\ permLog' = Append(permLog, result)
              /\ permHttp' = Append(permHttp, resp.status)
              /\ calls' = [calls EXCEPT !.perm = @ + 1, !.gemini = @ + r.gemini]
              /\ results' = IF Keeps(result)
                            THEN Append(results, <<result.file_id, result.permalink>>)
                            ELSE results
              /\ idx' = IF resp.status = "error" THEN Len(file_ids) + 1 ELSE idx + 1
    /\ UNCHANGED <<pc, config, credFile, tokenResp, zoho_auth_token, folder,
                   file_ids, pageLog, sheet, lastSync, prevSync, syncCalls>>

\* lines 235-240: one pass of the for loop
ProcessFile ==
    /\ pc = "FILES_LISTED"
    /\ idx <= Len(file_ids)
    /\ \E resp \in PermResponses, gresp \in GeminiResponses :
          LET r == set_permissions_and_get_permalink(file_ids[idx], resp, gresp)
              result == r.result
          IN  /\ permLog' = Append(permLog, result)
              /\ permHttp' = Append(permHttp, resp.status)
              /\ calls' = [calls EXCEPT !.perm = @ + 1, !.gemini = @ + r.gemini]
              /\ results' = IF Keeps(result)
                            THEN Append(results, <<result.file_id, result.permalink>>)
                            ELSE results
    /\ idx' = idx + 1
    /\ UNCHANGED <<pc, config, credFile, tokenResp, zoho_auth_token, folder,
                   file_ids, pageLog, sheet, lastSync, prevSync, syncCalls>>

\* the for loop is exhausted
LoopDone ==
    /\ pc = "FILES_LISTED"
    /\ idx > Len(file_ids)
    /\ pc' = "PERMISSIONS_PROCESSED"
    /\ UNCHANGED <<config, credFile, tokenResp, zoho_auth_token, folder, file_ids,
                   pageLog, idx, results, permLog, permHttp, sheet, calls, lastSync,
                   prevSync, syncCalls>>

\* lines 242-243
Sync ==
    /\ pc = "PERMISSIONS_PROCESSED"
    /\ results # <<>>
    /\ \E cred \in CredFileStates, getOK \in BOOLEAN, appendOK \in BOOLEAN :
          LET r == append_to_google_sheet(results, sheet, cred, getOK, appendOK)
          IN  /\ credFile' = cred
              /\ sheet' = r.sheet
              /\ lastSync' = SyncRecord(results, sheet, r)
              /\ calls' = [calls EXCEPT !.gets = r.gets, !.appends = r.appends]
              /\ pc' = "SYNCED"
    /\ prevSync' = lastSync
    /\ syncCalls' = syncCalls + 1
    /\ UNCHANGED <<config, tokenResp, zoho_auth_token, folder, file_ids, pageLog, idx,
                   results, permLog, permHttp>>

\* lines 244-245
SkipSync ==
    /\ pc = "PERMISSIONS_PROCESSED"
    /\ results = <<>>
    /\ pc' = "DONE"
    /\ UNCHANGED <<config, credFile, tokenResp, zoho_auth_token, folder, file_ids,
                   pageLog, idx, results, permLog, permHttp, sheet, calls, lastSync,
                   prevSync, syncCalls>>

\* main returns
Finish ==
    /\ pc = "SYNCED"
    /\ pc' = "DONE"
    /\ UNCHANGED <<config, credFile, tokenResp, zoho_auth_token, folder, file_ids,
                   pageLog, idx, results, permLog, permHttp, sheet, calls, lastSync,
                   prevSync, syncCalls>>

\* The script is started again: a new process, a new environment, the same sheet.
StartRun ==
    /\ pc = "DONE"
    /\ pc' = "INIT"
    /\ config' \in Configs
    /\ credFile' = "unread"
    /\ tokenResp' = "not_requested"
    /\ zoho_auth_token' = PyNone
    /\ folder' = <<>>
    /\ file_ids' = <<>>
    /\ pageLog' = <<>>
    /\ idx' = 1
    /\ results' = <<>>
    /\ permLog' = <<>>
    /\ permHttp' = <<>>
    /\ calls' = NoCalls
    /\ lastSync' = NoSync
    /\ prevSync' = NoSync
    /\ syncCalls' = 0
    /\ UNCHANGED sheet

Next ==
    \/ RefreshToken
    \/ FetchFiles
    \/ ProcessFile
    \/ LoopDone
    \/ Sync
    \/ SkipSync
    \/ Finish
    \/ StartRun

Spec == Init /\ [][Next]_vars

\* The script is sequential: whenever a statement can run and its remote call
\* returns, it runs.
SpecFair == Spec /\ WF_vars(Next)

---------------------------------------------------------------------------
(* The File Lister alone, over folders of up to MaxFiles files *)

HoleSets == {{}, {2}, {limit, limit + 1}}

ListFolders ==
    {[i \in 1..n |-> IF i \in holes THEN NoId ELSE ToString(i)] :
        n \in 0..MaxFiles, holes \in HoleSets}

InitList ==
    /\ pc = "LIST"
    /\ folder \in ListFolders
    /\ config = AllSet
    /\ credFile = "unread"
    /\ sheet = <<>>
    /\ tokenResp = "access_token"
    /\ zoho_auth_token = <<"t">>
    /\ file_ids = <<>>
    /\ pageLog = <<>>
    /\ idx = 1
    /\ results = <<>>
    /\ permLog = <<>>
    /\ permHttp = <<>>
    /\ calls = NoCalls
    /\ lastSync = NoSync
    /\ prevSync = NoSync
    /\ syncCalls = 0

\* file_ids = fetch_file_ids()
ListFiles ==
    /\ pc = "LIST"
    /\ \E failAt \in 0..MaxFailAt :
          LET r == fetch_file_ids(folder, failAt)
          IN  /\ file_ids' = r.file_ids
              /\ pageLog' = r.pages
              /\ calls' = [calls EXCEPT !.list = Len(r.pages)]
    /\ pc' = "LISTED"
    /\ UNCHANGED <<config, credFile, tokenResp, zoho_auth_token, folder, idx,
                   results, permLog, permHttp, sheet, lastSync, prevSync, syncCalls>>

NextList == ListFiles

SpecList == InitList /\ [][NextList]_vars

---------------------------------------------------------------------------
(* The Sheet Synchronizer alone, called repeatedly with one result set *)

SyncIds == {"A", "B", "C"}

LinkX == <<"x">>

LinkY == <<"y">>

MaxSyncRows == 2

SyncSheets == DupFreeSheets(SyncIds, {LinkX}, MaxSyncRows)

SyncResults == UNION {[1..k -> SyncIds \X {LinkX, LinkY}] : k \in 0..MaxResults}

InitSync ==
    /\ pc = "SYNC"
    /\ sheet \in SyncSheets
    /\ results \in SyncResults
    /\ credFile = "unread"
    /\ config = AllSet
    /\ tokenResp = "access_token"
    /\ zoho_auth_token = <<"t">>
    /\ folder = <<>>
    /\ file_ids = <<>>
    /\ pageLog = <<>>
    /\ idx = 1
    /\ permLog = <<>>
    /\ permHttp = <<>>
    /\ calls = NoCalls
    /\ lastSync = NoSync
    /\ prevSync = NoSync
    /\ syncCalls = 0

\* append_to_google_sheet(results), once more
Resync ==
    /\ pc = "SYNC"
    /\ syncCalls < MaxSyncCalls
    /\ \E cred \in CredFileStates, getOK \in BOOLEAN, appendOK \in BOOLEAN :
          LET r == append_to_google_sheet(results, sheet, cred, getOK, appendOK)
          IN  /\ credFile' = cred
              /\ sheet' = r.sheet
              /\ lastSync' = SyncRecord(results, sheet, r)
              /\ calls' = [calls EXCEPT !.gets = r.gets, !.appends = r.appends]
    /\ prevSync' = lastSync
    /\ syncCalls' = syncCalls + 1
    /\ UNCHANGED <<pc, config, tokenResp, zoho_auth_token, folder, file_ids,
                   pageLog, idx, results, permLog, permHttp>>

NextSync == Resync

SpecSync == InitSync /\ [][NextSync]_vars

---------------------------------------------------------------------------
(* Properties *)

IdColumn(sh) == {sh[i][1] : i \in 1..Len(sh)} \ {Blank}

\* C1: after any sequence of runs from a duplicate-free sheet, every file_id
\* appears at most once in the sheet's identifier column, whatever the File
\* Lister returned (a listing with a repeated identifier included).
C1_IdentifierColumnUnique ==
    \A i, j \in 1..Len(sheet) :
        (i # j /\ sheet[i][1] = sheet[j][1]) => sheet[i][1] = Blank

C3_AppendsExactlyTheNewPairs ==
    (lastSync.called /\ lastSync.read) =>
        LET E == IdColumn(lastSync.before)
            IsNew(pair) == pair[1] \notin E
            expected == SelectSeq(lastSync.arg, IsNew)
        IN  /\ lastSync.existing = E
            /\ lastSync.toAppend = expected
            /\ lastSync.outcome = "appended" => lastSync.after = lastSync.before \o expected
            /\ lastSync.outcome # "appended" => lastSync.after = lastSync.before
            /\ sheet = lastSync.after

C3_Witness ==
    /\ lastSync.called
    /\ IdColumn(lastSync.before) = {"A", "B"}
    /\ lastSync.arg = <<<<"A", LinkX>>, <<"C", LinkY>>>>
    /\ lastSync.toAppend = <<<<"C", LinkY>>>>
    /\ lastSync.outcome = "appended"

ExpectedPages(n) ==
    [k \in 1..((n \div limit) + 1) |->
        <<limit * (k - 1), Min(limit, n - limit * (k - 1))>>]

NoTransportError(log) == \A k \in 1..Len(log) : log[k][2] >= 0

\* C4: without a transport error the File Lister requests the offsets 0, 50,
\* 100, ..., stops at the first page of zero or fewer than 50 items and returns
\* every identifier of the folder in order; a folder of 120 files takes exactly
\* the three requests of 50, 50 and 20 items and yields 120 identifiers.
C4_PaginationComplete ==
    (pc = "LISTED" /\ NoTransportError(pageLog)) =>
        /\ pageLog = ExpectedPages(Len(folder))
        /\ \A k \in 1..Len(pageLog) :
              (pageLog[k][2] = 0 \/ pageLog[k][2] < limit) <=> k = Len(pageLog)
        /\ file_ids = SelectSeq(folder, HasId)
        /\ (Len(folder) = 120 /\ NoId \notin {folder[i] : i \in 1..Len(folder)}) =>
              /\ pageLog = <<<<0, 50>>, <<50, 50>>, <<100, 20>>>>
              /\ file_ids = [i \in 1..120 |-> ToString(i)]

C4_Witness ==
    /\ pc = "LISTED"
    /\ Len(folder) = 120
    /\ Len(pageLog) = 3
    /\ Len(file_ids) = 120

\* C5: when the token request fails (transport/HTTP error, or a body without an
\* access token) the run ends at once: no listing request, no permission
\* request, no Gemini request and no call of the Sheet Synchronizer.
C5_TokenFailureAborts ==
    tokenResp \in {"transport_error", "no_access_token"} =>
        /\ pc = "DONE"
        /\ calls.list = 0 /\ pageLog = <<>>
        /\ calls.perm = 0 /\ permLog = <<>>
        /\ calls.gemini = 0
        /\ calls.gets = 0 /\ calls.appends = 0
        /\ ~lastSync.called

C5_Witness ==
    /\ tokenResp = "no_access_token"
    /\ calls.token = 1
    /\ pc = "DONE"

\* C6: when one of the five settings is missing or empty, the run is aborted
\* and no network request at all is issued.
C6_NoRequestWhenSettingMissingOrEmpty ==
    (\E n \in SettingNames : ~Truthy(config[n])) =>
        /\ calls = NoCalls
        /\ pc \in {"INIT", "DONE"}

\* C7: when the spreadsheet credential file is absent or invalid, the run
\* issues no token request, no listing request and no permission request.
C7_NoRequestWhenCredentialFileBad ==
    credFile \in {"absent", "invalid"} =>
        /\ calls.token = 0
        /\ calls.list = 0
        /\ calls.perm = 0

\* C8: a permission request that fails yields {success: false, permalink: none}
\* for that file and the loop goes on: the Permission Setter is invoked in
\* listing order, once per listed identifier, whatever requests fail.
C8_EveryListedFileIsProcessed ==
    /\ Len(permLog) = Len(permHttp)
    /\ calls.perm = Len(permLog)
    /\ Len(permLog) <= Len(file_ids)
    /\ \A i \in 1..Len(permLog) :
          /\ permLog[i].file_id = file_ids[i]
          /\ permHttp[i] = "error" =>
                permLog[i] = [file_id |-> file_ids[i], permalink |-> PyNone,
                              success |-> FALSE]
          /\ permHttp[i] = "ok" => permLog[i].success
    /\ (pc \in {"PERMISSIONS_PROCESSED", "SYNCED"}
            \/ (pc = "DONE" /\ tokenResp = "access_token")) =>
          Len(permLog) = Len(file_ids)

C8_Witness ==
    /\ pc = "DONE"
    /\ Len(file_ids) = 2
    /\ permHttp = <<"error", "ok">>
    /\ Len(permLog) = 2

QualifyingPairs(log) ==
    LET Qualifies(r) == r.success /\ r.permalink # PyNone
        q == SelectSeq(log, Qualifies)
    IN  [i \in 1..Len(q) |-> <<q[i].file_id, q[i].permalink>>]

\* C9: the Sheet Synchronizer is invoked in a run iff some permission result has
\* success and a non-null permalink; its argument is then exactly the pairs of
\* those results, in processing order; otherwise no spreadsheet request is issued.
C9_SyncIffQualifyingResult ==
    /\ results = QualifyingPairs(permLog)
    /\ lastSync.called => (lastSync.arg = QualifyingPairs(permLog) /\ lastSync.arg # <<>>)
    /\ (pc = "DONE" /\ tokenResp = "access_token") =>
          (lastSync.called <=> QualifyingPairs(permLog) # <<>>)
    /\ ~lastSync.called => (calls.gets = 0 /\ calls.appends = 0 /\ syncCalls = 0)

C9_Witness ==
    /\ pc = "DONE"
    /\ lastSync.called
    /\ Len(permLog) = 2
    /\ permLog[1].success /\ permLog[1].permalink = PyNone
    /\ Len(lastSync.arg) = 1

Rank(p) ==
    CASE p = "INIT" -> 0
      [] p = "TOKEN_REFRESHED" -> 1
      [] p = "FILES_LISTED" -> 2
      [] p = "PERMISSIONS_PROCESSED" -> 3
      [] p = "SYNCED" -> 4
      [] p = "DONE" -> 5

\* C10: every run reaches DONE, moving only forward through INIT,
\* TOKEN_REFRESHED, FILES_LISTED, PERMISSIONS_PROCESSED, SYNCED, DONE, whatever
\* listing, permission, extraction or spreadsheet request fails; only a failed
\* token refresh takes INIT directly to DONE.
C10_RunsForwardToDone ==
    /\ [][pc # "DONE" => Rank(pc') >= Rank(pc)]_vars
    /\ [][(pc = "INIT" /\ pc' = "DONE") => tokenResp' # "access_token"]_vars
    /\ [][(pc = "INIT" /\ pc' # "INIT") => pc' \in {"TOKEN_REFRESHED", "DONE"}]_vars
    /\ [](pc = "INIT" => <>(pc = "DONE"))

C10_Witness ==
    /\ pc = "DONE"
    /\ pageLog # <<>>
    /\ "error" \in {permHttp[i] : i \in 1..Len(permHttp)}
    /\ calls.gemini > 0
    /\ lastSync.outcome = "http_error"

====
